---- MODULE Spec2Model ----
(***************************************************************************)
(* Model of decode_wkb.py: a script that hex-decodes a WKB literal with     *)
(* binascii.unhexlify, parses the bytes with shapely's wkb.loads (the GEOS *)
(* WKB reader) and prints the geometry's WKT.                              *)
(*                                                                         *)
(*   line 4   wkb_hex = '0101000020E6...'   # your MBR                    *)
(*   line 5   geom = wkb.loads(binascii.unhexlify(wkb_hex))                *)
(*   line 6   print(geom.wkt)                                              *)
(*                                                                         *)
(* The literal of line 4 is the one input of the script; the comment       *)
(* "your MBR" marks it as the value a user replaces.  Init therefore draws *)
(* wkb_hex from the literal and from a bounded family of hex strings:      *)
(* standard WKB encodings of small geometries, and damaged variants of     *)
(* them (a byte short, bytes too many, another byte-order byte, another    *)
(* type code, a hex digit short, a character that is no hex digit).        *)
(*                                                                         *)
(* The three calls of the script are library calls; each is modelled by    *)
(* what the library does: binascii.unhexlify of the Python standard        *)
(* library, the WKB reader and the WKT writer of GEOS behind shapely.      *)
(*                                                                         *)
(* A hex string is a sequence of one-character strings, a byte string a    *)
(* sequence of numbers 0..255, a double the sequence of its 8 bytes, most  *)
(* significant first (its IEEE-754 bit pattern).                           *)
(***************************************************************************)
EXTENDS Integers, Sequences, FiniteSets, TLC

VARIABLES
    input,          \* how wkb_hex was drawn (which geometry, which damage)
    machineOrder,   \* byte order of the machine the script runs on
    wkb_hex,        \* line 4: the hex string
    pc,             \* position of the script
    data,           \* line 5: the value binascii.unhexlify returned
    geom,           \* line 5: the geometry wkb.loads returned
    exc,            \* the uncaught exception that ended the run, "" if none
    stdout          \* the lines written to standard output

vars == <<input, machineOrder, wkb_hex, pc, data, geom, exc, stdout>>

----------------------------------------------------------------------------
(* Bounds of the input family.                                             *)

\* geometries of 0..MaxElems elements (the points of a line beyond its
\* first, the rings of a polygon, the members of a Multi*)
MaxElems == 2
\* up to MaxTrail bytes appended after a complete encoding
MaxTrail == 2

----------------------------------------------------------------------------
(* Line 4: the literal.                                                    *)

wkb_hex_literal ==
    << "0","1", "0","1","0","0","0","0","2","0", "E","6","1","0","0","0","0","0",
       "3","3","3","3","3","3","3","3","3","3","9","3","5","A","C","0",
       "C","4","4","2","A","D","6","9","D","E","B","1","3","F","4","0" >>

----------------------------------------------------------------------------
(* binascii.unhexlify / binascii.hexlify.                                  *)

\* Value of a hex digit, -1 for any other character (both cases accepted).
HexVal(c) ==
    CASE c = "0" -> 0  [] c = "1" -> 1  [] c = "2" -> 2  [] c = "3" -> 3
      [] c = "4" -> 4  [] c = "5" -> 5  [] c = "6" -> 6  [] c = "7" -> 7
      [] c = "8" -> 8  [] c = "9" -> 9
      [] c = "A" -> 10 [] c = "B" -> 11 [] c = "C" -> 12
      [] c = "D" -> 13 [] c = "E" -> 14 [] c = "F" -> 15
      [] c = "a" -> 10 [] c = "b" -> 11 [] c = "c" -> 12
      [] c = "d" -> 13 [] c = "e" -> 14 [] c = "f" -> 15
      [] OTHER -> -1

UpperDigits ==
    << "0","1","2","3","4","5","6","7","8","9","A","B","C","D","E","F" >>

LowerDigits ==
    << "0","1","2","3","4","5","6","7","8","9","a","b","c","d","e","f" >>

\* The exception binascii.unhexlify raises (binascii.Error), "" when it
\* returns: an odd number of characters is refused before any is looked at.
BinasciiError == "binascii.Error"

\* (variant: the length is not checked, a last odd character is dropped)
unhexlify_error_digits_only(hex) ==
    IF \E i \in 1..Len(hex) : HexVal(hex[i]) = -1 THEN BinasciiError ELSE ""

unhexlify_error(hex) ==
    IF Len(hex) % 2 # 0 THEN BinasciiError
    ELSE IF \E i \in 1..Len(hex) : HexVal(hex[i]) = -1 THEN BinasciiError
    ELSE ""

\* The bytes binascii.unhexlify returns for an even-length string of digits.
unhexlify(hex) ==
    [i \in 1..(Len(hex) \div 2) |->
        16 * HexVal(hex[2 * i - 1]) + HexVal(hex[2 * i])]

\* The hex text of a byte string, in the digits given.
hexlify(bytes, digits) ==
    [i \in 1..(2 * Len(bytes)) |->
        IF i % 2 = 1 THEN digits[(bytes[(i + 1) \div 2] \div 16) + 1]
        ELSE digits[(bytes[i \div 2] % 16) + 1]]

----------------------------------------------------------------------------
(* wkb.loads: the GEOS WKB reader behind shapely.                          *)
(*                                                                         *)
(* The reader consumes a stream front to back.  Its state is the read      *)
(* position and the stream's byte order, which starts as the machine's     *)
(* order and is changed only by a byte-order byte of 0 or 1.  Each reader  *)
(* returns [err, pos, val]: err is the ParseException's message ("" when   *)
(* the read succeeded), pos the position after what was read.              *)

wkbXDR == 0     \* big-endian
wkbNDR == 1     \* little-endian

\* The reader's failure when the bytes end before what a field or a count
\* announces.  (Newer readers compare a count with the bytes left before
\* they read, and word the same failure "Input buffer is smaller than
\* requested object size".)
EofError         == "ParseException: Unexpected EOF parsing WKB"
UnknownTypeError == "ParseException: Unknown WKB type"
BadGeomTypeError == "ParseException: Bad geometry type encountered"
IllegalArgumentError == "IllegalArgumentException"

\* Whether n more bytes can be read at pos.
Has(s, pos, n) == pos + n - 1 <= Len(s)

\* (variant: the stream's order is ignored, every word read big-endian)
Word_big_endian(s, pos, order) ==
    << s[pos], s[pos + 1], s[pos + 2], s[pos + 3] >>

\* The 4 bytes at pos, most significant first, under the stream's order.
Word(s, pos, order) ==
    IF order = wkbNDR
    THEN << s[pos + 3], s[pos + 2], s[pos + 1], s[pos] >>
    ELSE << s[pos], s[pos + 1], s[pos + 2], s[pos + 3] >>

\* readUnsigned: the word as a count.  Counts are only compared with the
\* number of bytes left, so values of 2^31 and more are kept as 2^31 - 1.
Unsigned(w) ==
    IF w[1] >= 128 THEN 2147483647
    ELSE ((w[1] * 256 + w[2]) * 256 + w[3]) * 256 + w[4]

\* readInt: the word as a signed 32-bit integer.
Signed(w) ==
    IF w[1] >= 128
    THEN (((w[1] - 256) * 256 + w[2]) * 256 + w[3]) * 256 + w[4]
    ELSE ((w[1] * 256 + w[2]) * 256 + w[3]) * 256 + w[4]

\* (variant: the stream's order is ignored, every double read big-endian)
Double_big_endian(s, pos, order) == [i \in 1..8 |-> s[pos + i - 1]]

\* readDouble: the 8 bytes at pos, most significant first.
Double(s, pos, order) ==
    [i \in 1..8 |-> IF order = wkbNDR THEN s[pos + 8 - i] ELSE s[pos + i - 1]]

\* (variant: x and y only, further ordinates dropped)
Coordinate_xy(s, pos, order, dims) ==
    [k \in 1..2 |-> Double(s, pos + 8 * (k - 1), order)]

\* readCoordinate: dims doubles.
Coordinate(s, pos, order, dims) ==
    [k \in 1..dims |-> Double(s, pos + 8 * (k - 1), order)]

Failed(e) == [err |-> e, pos |-> 0, val |-> << >>]

Read(p, v) == [err |-> "", pos |-> p, val |-> v]

\* readPoint: one coordinate.  (No double of the input family is NaN, the
\* ordinate that stands for the empty point.)
readPoint(s, pos, order, dims) ==
    IF ~Has(s, pos, 8 * dims) THEN Failed(EofError)
    ELSE Read(pos + 8 * dims, Coordinate(s, pos, order, dims))

\* readCoordinateSequence: a count, then that many coordinates.
readCoordinateSequence(s, pos, order, dims) ==
    IF ~Has(s, pos, 4) THEN Failed(EofError)
    ELSE LET size == Unsigned(Word(s, pos, order))
             left == Len(s) - (pos + 4) + 1
         IN  IF size > left \div (8 * dims) THEN Failed(EofError)
             ELSE Read(pos + 4 + size * 8 * dims,
                       [i \in 1..size |->
                           Coordinate(s, pos + 4 + (i - 1) * 8 * dims, order, dims)])

\* readLineString: a line of exactly one point cannot be constructed.
readLineString(s, pos, order, dims) ==
    LET r == readCoordinateSequence(s, pos, order, dims)
    IN  IF r.err # "" THEN r
        ELSE IF Len(r.val) = 1 THEN Failed(IllegalArgumentError)
        ELSE r

\* readLinearRing: a ring that is not empty must be closed and have at
\* least 3 points.
readLinearRing(s, pos, order, dims) ==
    LET r == readCoordinateSequence(s, pos, order, dims)
    IN  IF r.err # "" THEN r
        ELSE IF Len(r.val) = 0 THEN r
        ELSE IF r.val[1] # r.val[Len(r.val)] \/ Len(r.val) < 3
             THEN Failed(IllegalArgumentError)
        ELSE r

\* The rings of a polygon, one after the other: n more, acc read so far.
RECURSIVE readRings(_, _, _, _, _, _)
readRings(s, pos, order, dims, n, acc) ==
    IF n = 0 THEN Read(pos, acc)
    ELSE LET r == readLinearRing(s, pos, order, dims)
         IN  IF r.err # "" THEN r
             ELSE readRings(s, r.pos, order, dims, n - 1, Append(acc, r.val))

\* readPolygon: a ring count, then the rings.  More rings than bytes cannot
\* follow.
readPolygon(s, pos, order, dims) ==
    IF ~Has(s, pos, 4) THEN Failed(EofError)
    ELSE LET numRings == Unsigned(Word(s, pos, order))
         IN  IF numRings > Len(s) THEN Failed(EofError)
             ELSE readRings(s, pos + 4, order, dims, numRings, << >>)

\* (variant: the kind taken from the low nibble of the type code)
KindOf_low_nibble(geometryType) ==
    CASE geometryType % 16 = 1 -> "Point"
      [] geometryType % 16 = 2 -> "LineString"
      [] geometryType % 16 = 3 -> "Polygon"
      [] geometryType % 16 = 4 -> "MultiPoint"
      [] geometryType % 16 = 5 -> "MultiLineString"
      [] geometryType % 16 = 6 -> "MultiPolygon"
      [] OTHER -> ""

\* The geometry kind of a type code.
KindOf(geometryType) ==
    CASE geometryType = 1 -> "Point"
      [] geometryType = 2 -> "LineString"
      [] geometryType = 3 -> "Polygon"
      [] geometryType = 4 -> "MultiPoint"
      [] geometryType = 5 -> "MultiLineString"
      [] geometryType = 6 -> "MultiPolygon"
      [] geometryType = 7 -> "GeometryCollection"
      [] OTHER -> ""

\* The kind every member of a Multi* must have ("" for a collection: any).
MemberKind(kind) ==
    CASE kind = "MultiPoint" -> "Point"
      [] kind = "MultiLineString" -> "LineString"
      [] kind = "MultiPolygon" -> "Polygon"
      [] OTHER -> ""

NoGeometry == [kind |-> "None", srid |-> 0, hasZ |-> FALSE, hasM |-> FALSE,
               body |-> << >>]

\* (variant: a byte-order byte that is neither 0 nor 1 selects big-endian)
StreamOrder_default_xdr(byteOrder, order0) ==
    IF byteOrder = wkbNDR THEN wkbNDR ELSE wkbXDR

\* The stream's order after a byte-order byte: 1 selects little-endian, 0
\* big-endian, and any other byte leaves the order as it was ("default is
\* machine endian"); no byte is refused.
StreamOrder(byteOrder, order0) ==
    IF byteOrder = wkbNDR THEN wkbNDR
    ELSE IF byteOrder = wkbXDR THEN wkbXDR
    ELSE order0

\* readGeometry: byte order, type tag, SRID when flagged, then the body the
\* type code selects.  The result carries the stream's order after the read
\* (order), which the next member of a Multi* starts from.
RECURSIVE readGeometry(_, _, _)
RECURSIVE readMembers(_, _, _, _, _, _)

readMembers(s, pos, order, kind, n, acc) ==
    IF n = 0 THEN [err |-> "", pos |-> pos, order |-> order, val |-> acc]
    ELSE LET g == readGeometry(s, pos, order)
         IN  IF g.err # "" THEN g
             ELSE IF kind # "" /\ g.val.kind # kind
                  THEN [err |-> BadGeomTypeError, pos |-> 0, order |-> g.order,
                        val |-> << >>]
             ELSE readMembers(s, g.pos, g.order, kind, n - 1, Append(acc, g.val))

readGeometry(s, pos, order0) ==
    IF ~Has(s, pos, 1)
    THEN [err |-> EofError, pos |-> 0, order |-> order0, val |-> NoGeometry]
    ELSE
    LET byteOrder == s[pos]
        order == StreamOrder(byteOrder, order0)
        fail(e) == [err |-> e, pos |-> 0, order |-> order, val |-> NoGeometry]
    IN
    IF ~Has(s, pos + 1, 4) THEN fail(EofError)
    ELSE
    LET typeInt == Word(s, pos + 1, order)
        low16 == typeInt[3] * 256 + typeInt[4]
        geometryType == low16 % 1000
        isoTypeRange == low16 \div 1000
        hasZ == typeInt[1] >= 128 \/ isoTypeRange \in {1, 3}
        hasM == (typeInt[1] \div 64) % 2 = 1 \/ isoTypeRange \in {2, 3}
        hasSRID == (typeInt[1] \div 32) % 2 = 1
        dims == 2 + (IF hasZ THEN 1 ELSE 0) + (IF hasM THEN 1 ELSE 0)
        body == IF hasSRID THEN pos + 9 ELSE pos + 5
        kind == KindOf(geometryType)
    IN
    IF hasSRID /\ ~Has(s, pos + 5, 4) THEN fail(EofError)
    ELSE
    LET SRID == IF hasSRID THEN Signed(Word(s, pos + 5, order)) ELSE 0
        made(r) == IF r.err # "" THEN fail(r.err)
                   ELSE [err |-> "", pos |-> r.pos, order |-> order,
                         val |-> [kind |-> kind, srid |-> SRID, hasZ |-> hasZ,
                                  hasM |-> hasM, body |-> r.val]]
    IN
    CASE kind = "Point" -> made(readPoint(s, body, order, dims))
      [] kind = "LineString" -> made(readLineString(s, body, order, dims))
      [] kind = "Polygon" -> made(readPolygon(s, body, order, dims))
      [] kind \in {"MultiPoint", "MultiLineString", "MultiPolygon",
                   "GeometryCollection"} ->
            IF ~Has(s, body, 4) THEN fail(EofError)
            ELSE LET numGeoms == Unsigned(Word(s, body, order))
                 IN  IF numGeoms > Len(s) THEN fail(EofError)
                     ELSE LET m == readMembers(s, body + 4, order,
                                               MemberKind(kind), numGeoms, << >>)
                          IN  IF m.err # "" THEN fail(m.err)
                              ELSE [err |-> "", pos |-> m.pos, order |-> m.order,
                                    val |-> [kind |-> kind, srid |-> SRID,
                                             hasZ |-> hasZ, hasM |-> hasM,
                                             body |-> m.val]]
      [] OTHER -> fail(UnknownTypeError)

\* (variant: a read that runs out of bytes returns what it has)
loads_partial(bytes, machine) ==
    LET r == readGeometry(bytes, 1, machine)
    IN  IF r.err = EofError THEN [r EXCEPT !.err = ""] ELSE r

\* (variant: bytes left over after the geometry are refused)
loads_exact_length(bytes, machine) ==
    LET r == readGeometry(bytes, 1, machine)
    IN  IF r.err = "" /\ r.pos <= Len(bytes)
        THEN [r EXCEPT !.err = EofError, !.val = NoGeometry]
        ELSE r

\* wkb.loads(data): one geometry read from the start of the bytes, the
\* stream in the machine's order.  What follows the geometry is not read.
loads(bytes, machine) == readGeometry(bytes, 1, machine)

----------------------------------------------------------------------------
(* geom.wkt: the GEOS WKT writer.  The text is a sequence of characters;   *)
(* the coordinate text between the parentheses is kept as one token.       *)

Keyword(kind) ==
    CASE kind = "Point" -> << "P","O","I","N","T" >>
      [] kind = "LineString" -> << "L","I","N","E","S","T","R","I","N","G" >>
      [] kind = "Polygon" -> << "P","O","L","Y","G","O","N" >>
      [] kind = "MultiPoint" -> << "M","U","L","T","I","P","O","I","N","T" >>
      [] kind = "MultiLineString" ->
            << "M","U","L","T","I","L","I","N","E","S","T","R","I","N","G" >>
      [] kind = "MultiPolygon" ->
            << "M","U","L","T","I","P","O","L","Y","G","O","N" >>
      [] kind = "GeometryCollection" ->
            << "G","E","O","M","E","T","R","Y","C","O","L","L","E","C","T","I","O","N" >>

\* " Z", " M" or " ZM" after the keyword of a geometry with more ordinates.
Ordinates(g) ==
    IF g.hasZ /\ g.hasM THEN << " ", "Z", "M" >>
    ELSE IF g.hasZ THEN << " ", "Z" >>
    ELSE IF g.hasM THEN << " ", "M" >>
    ELSE << >>

\* (variant: extended WKT, the SRID written in front)
ewkt(g) ==
    (IF g.srid # 0 THEN << "S","R","I","D","=","<srid>",";" >> ELSE << >>)
        \o Keyword(g.kind) \o Ordinates(g) \o
        (IF g.body = << >> THEN << " ", "E","M","P","T","Y" >>
         ELSE << " ", "(", "<coordinates>", ")" >>)

\* The WKT of a geometry: no SRID is written.
wkt(g) ==
    Keyword(g.kind) \o Ordinates(g) \o
        (IF g.body = << >> THEN << " ", "E","M","P","T","Y" >>
         ELSE << " ", "(", "<coordinates>", ")" >>)

----------------------------------------------------------------------------
(* The input family: standard WKB encodings of small geometries.           *)

\* The doubles of the family: the literal's x and y, 1.0 and -2.5 (all
\* finite).
Pool ==
    << << 192, 90, 147, 51, 51, 51, 51, 51 >>,
       << 64, 63, 177, 222, 105, 173, 66, 196 >>,
       << 63, 240, 0, 0, 0, 0, 0, 0 >>,
       << 192, 4, 0, 0, 0, 0, 0, 0 >> >>

\* The i-th point of the family; Pt(1) is the literal's point.
Pt(i) == << Pool[((i - 1) % 4) + 1], Pool[(i % 4) + 1] >>

\* A closed ring of 4 points starting at the j-th point.
Ring(j) == << Pt(j), Pt(j + 1), Pt(j + 2), Pt(j) >>

Geom(kind, z, srid, body) ==
    [kind |-> kind, srid |-> srid, hasZ |-> z, hasM |-> FALSE, body |-> body]

Shapes == {"Point", "PointZ", "LineString", "Polygon", "MultiPoint",
           "MultiLineString", "MultiPolygon"}

\* The geometry of a shape with n elements, carrying srid (0: none).
GeomOf(shape, n, srid) ==
    CASE shape = "Point" -> Geom("Point", FALSE, srid, Pt(n))
      [] shape = "PointZ" ->
            Geom("Point", TRUE, srid, Pt(n) \o << Pool[3] >>)
      [] shape = "LineString" ->
            Geom("LineString", FALSE, srid,
                 [i \in 1..(IF n = 0 THEN 0 ELSE n + 1) |-> Pt(i)])
      [] shape = "Polygon" ->
            Geom("Polygon", FALSE, srid, [j \in 1..n |-> Ring(j)])
      [] shape = "MultiPoint" ->
            Geom("MultiPoint", FALSE, srid,
                 [i \in 1..n |-> Geom("Point", FALSE, 0, Pt(i))])
      [] shape = "MultiLineString" ->
            Geom("MultiLineString", FALSE, srid,
                 [i \in 1..n |->
                    Geom("LineString", FALSE, 0, << Pt(i), Pt(i + 1) >>)])
      [] shape = "MultiPolygon" ->
            Geom("MultiPolygon", FALSE, srid,
                 [i \in 1..n |-> Geom("Polygon", FALSE, 0, << Ring(i) >>)])

\* The type code of a kind.
CodeOf(kind) ==
    CASE kind = "Point" -> 1
      [] kind = "LineString" -> 2
      [] kind = "Polygon" -> 3
      [] kind = "MultiPoint" -> 4
      [] kind = "MultiLineString" -> 5
      [] kind = "MultiPolygon" -> 6
      [] kind = "GeometryCollection" -> 7

\* A word (most significant byte first) as 4 bytes in the given order.
PutWord(w, order) ==
    IF order = wkbNDR THEN << w[4], w[3], w[2], w[1] >> ELSE w

\* A number of 0 .. 2^31 - 1 as a word.
WordOf(n) ==
    << (n \div 16777216) % 256, (n \div 65536) % 256, (n \div 256) % 256,
       n % 256 >>

PutDouble(d, order) ==
    IF order = wkbNDR THEN [i \in 1..8 |-> d[9 - i]] ELSE d

RECURSIVE Concat(_)
Concat(seqs) ==
    IF seqs = << >> THEN << >> ELSE Head(seqs) \o Concat(Tail(seqs))

PutCoordinate(c, order) == Concat([k \in 1..Len(c) |-> PutDouble(c[k], order)])

PutCoordinates(cs, order) ==
    PutWord(WordOf(Len(cs)), order)
        \o Concat([i \in 1..Len(cs) |-> PutCoordinate(cs[i], order)])

\* The standard (extended) WKB encoding of a geometry: byte order, type tag
\* with the Z/M/SRID flags, the SRID when there is one, the body.
RECURSIVE encode_as_wkb(_, _)
encode_as_wkb(g, order) ==
    LET flags == (IF g.hasZ THEN 128 ELSE 0) + (IF g.hasM THEN 64 ELSE 0)
                    + (IF g.srid # 0 THEN 32 ELSE 0)
        tag == << flags, 0, 0, CodeOf(g.kind) >>
        body ==
            CASE g.kind = "Point" -> PutCoordinate(g.body, order)
              [] g.kind = "LineString" -> PutCoordinates(g.body, order)
              [] g.kind = "Polygon" ->
                    PutWord(WordOf(Len(g.body)), order)
                        \o Concat([j \in 1..Len(g.body) |->
                                      PutCoordinates(g.body[j], order)])
              [] OTHER ->
                    PutWord(WordOf(Len(g.body)), order)
                        \o Concat([i \in 1..Len(g.body) |->
                                      encode_as_wkb(g.body[i], order)])
    IN  << order >> \o PutWord(tag, order)
            \o (IF g.srid # 0 THEN PutWord(WordOf(g.srid), order) ELSE << >>)
            \o body

----------------------------------------------------------------------------
(* Damage done to an encoding, and to its hex text.                        *)

\* Type codes put in place of the encoding's own.  7 is GeometryCollection;
\* the others name no geometry type the reader knows.  (8..12, the curve
\* types, are left out: whether the reader knows them depends on its
\* version.)
TypeCodes == {0, 7, 13, 14, 15, 16, 17, 23, 129, 255}

\* Byte-order bytes put in place of the encoding's own.
OrderBytes == {2, 255}

Multis == {"MultiPoint", "MultiLineString", "MultiPolygon"}

Damages ==
    {<< "none", 0 >>, << "truncate", 0 >>, << "empty", 0 >>}
        \cup {<< "trail", k >> : k \in 1..MaxTrail}
        \cup {<< "order", v >> : v \in OrderBytes}
        \cup {<< "type", c >> : c \in TypeCodes}

HexDamages == {"none", "lower", "odd", "nonhex_first", "nonhex_last"}

\* The position of the low byte of the top-level type tag.
TypePos(order) == IF order = wkbNDR THEN 2 ELSE 5

Damaged(bytes, order, damage) ==
    CASE damage[1] = "none" -> bytes
      [] damage[1] = "truncate" -> SubSeq(bytes, 1, Len(bytes) - 1)
      [] damage[1] = "empty" -> << >>
      [] damage[1] = "trail" ->
            bytes \o [i \in 1..damage[2] |-> (85 * i) % 256]
      [] damage[1] = "order" -> [bytes EXCEPT ![1] = damage[2]]
      [] damage[1] = "type" -> [bytes EXCEPT ![TypePos(order)] = damage[2]]

HexDamaged(hex, hexdamage) ==
    CASE hexdamage = "odd" -> SubSeq(hex, 1, Len(hex) - 1)
      [] hexdamage = "nonhex_first" /\ Len(hex) > 0 -> [hex EXCEPT ![1] = "G"]
      [] hexdamage = "nonhex_last" /\ Len(hex) > 0 ->
            [hex EXCEPT ![Len(hex)] = "x"]
      [] OTHER -> hex

\* The geometry an input was encoded from.
Original(in) == GeomOf(in.shape, in.n, in.srid)

\* The bytes an input stands for, before the hex text is damaged.
BytesOf(in) ==
    Damaged(encode_as_wkb(Original(in), in.order), in.order, in.damage)

\* The hex string of an input.
HexOf(in) ==
    HexDamaged(hexlify(BytesOf(in),
                       IF in.hexdamage = "lower" THEN LowerDigits
                       ELSE UpperDigits),
               in.hexdamage)

Inputs ==
    {in \in [shape : Shapes, n : 0..MaxElems, order : {wkbXDR, wkbNDR},
             srid : {0, 4326}, damage : Damages, hexdamage : HexDamages] :
        /\ in.n = 0 => in.shape \notin {"Point", "PointZ"}
        /\ in.hexdamage # "none" => in.damage[1] = "none"
        /\ in.damage = << "type", 7 >> => in.shape \in Multis
        /\ in.damage[1] = "empty" => in.hexdamage \in {"none"}}

\* The input that is the literal of line 4.
LiteralInput ==
    [shape |-> "Point", n |-> 1, order |-> wkbNDR, srid |-> 4326,
     damage |-> << "none", 0 >>, hexdamage |-> "none"]

----------------------------------------------------------------------------
(* The script.                                                             *)

Init ==
    /\ input \in Inputs
    /\ machineOrder \in {wkbXDR, wkbNDR}
    /\ wkb_hex = HexOf(input)
    /\ pc = "unhexlify"
    /\ data = << >>
    /\ geom = NoGeometry
    /\ exc = ""
    /\ stdout = << >>

\* line 5, the inner call: binascii.unhexlify(wkb_hex)
Unhexlify ==
    /\ pc = "unhexlify"
    /\ IF unhexlify_error(wkb_hex) # ""
       THEN /\ exc' = unhexlify_error(wkb_hex)
            /\ pc' = "raised"
            /\ data' = data
       ELSE /\ data' = unhexlify(wkb_hex)
            /\ pc' = "loads"
            /\ exc' = exc
    /\ UNCHANGED <<input, machineOrder, wkb_hex, geom, stdout>>

\* (variant: the call wrapped in a handler that reports and goes on)
Loads_caught ==
    /\ pc = "loads"
    /\ LET r == loads(data, machineOrder)
       IN  IF r.err # ""
           THEN /\ stdout' = Append(stdout, << "e","r","r","o","r" >>)
                /\ pc' = "exit"
                /\ geom' = geom
           ELSE /\ geom' = r.val
                /\ pc' = "print"
                /\ stdout' = stdout
    /\ UNCHANGED <<input, machineOrder, wkb_hex, data, exc>>

\* line 5, the outer call: geom = wkb.loads(...)
Loads ==
    /\ pc = "loads"
    /\ LET r == loads(data, machineOrder)
       IN  IF r.err # ""
           THEN /\ exc' = r.err
                /\ pc' = "raised"
                /\ geom' = geom
           ELSE /\ geom' = r.val
                /\ pc' = "print"
                /\ exc' = exc
    /\ UNCHANGED <<input, machineOrder, wkb_hex, data, stdout>>

\* line 6: print(geom.wkt)
PrintWkt ==
    /\ pc = "print"
    /\ stdout' = Append(stdout, wkt(geom))
    /\ pc' = "exit"
    /\ UNCHANGED <<input, machineOrder, wkb_hex, data, geom, exc>>

Next == Unhexlify \/ Loads \/ PrintWkt

Spec == Init /\ [][Next]_vars

----------------------------------------------------------------------------
(* The value of a double.  A finite double with sign bit s, biased         *)
(* exponent e and 52-bit fraction f is (-1)^s * m * 2^(e - 1075), where    *)
(* m = 2^52 + f (and m = f, e read as 1, when e = 0).  m and the numbers   *)
(* it is compared with are kept as sequences of base-256 digits, least     *)
(* significant first, as they do not fit a machine integer.                *)

Negative(d) == d[1] >= 128

Exponent(d) == (d[1] % 128) * 16 + d[2] \div 16

Significand(d) ==
    << d[8], d[7], d[6], d[5], d[4], d[3],
       (d[2] % 16) + (IF Exponent(d) = 0 THEN 0 ELSE 16) >>

\* The power of two the significand is scaled by.
Scale(d) == (IF Exponent(d) = 0 THEN 1 ELSE Exponent(d)) - 1075

\* x * k + carry, for a digit sequence x and small numbers k and carry.
RECURSIVE Times(_, _, _)
Times(x, k, carry) ==
    IF x = << >>
    THEN IF carry = 0 THEN << >>
         ELSE << carry % 256 >> \o Times(<< >>, k, carry \div 256)
    ELSE << (Head(x) * k + carry) % 256 >>
            \o Times(Tail(x), k, (Head(x) * k + carry) \div 256)

RECURSIVE Pow2(_)
Pow2(n) == IF n = 0 THEN 1 ELSE 2 * Pow2(n - 1)

\* x * 2^n
TimesPow2(x, n) ==
    [i \in 1..(n \div 8) |-> 0] \o Times(x, Pow2(n % 8), 0)

\* x without its leading (most significant) zero digits
RECURSIVE Trim(_)
Trim(x) ==
    IF x # << >> /\ x[Len(x)] = 0 THEN Trim(SubSeq(x, 1, Len(x) - 1)) ELSE x

\* a < b for trimmed digit sequences of one length, compared from the top
RECURSIVE LessFrom(_, _, _)
LessFrom(a, b, i) ==
    IF i = 0 THEN FALSE
    ELSE IF a[i] # b[i] THEN a[i] < b[i]
    ELSE LessFrom(a, b, i - 1)

Less(a, b) ==
    LET x == Trim(a)
        y == Trim(b)
    IN  IF Len(x) # Len(y) THEN Len(x) < Len(y) ELSE LessFrom(x, y, Len(x))

Digits(n) == Times(<< 1 >>, n, 0)

\* |d| < num / den and |d| > num / den, for a finite double d and natural
\* numbers num and den (den > 0).
AbsBelow(d, num, den) ==
    IF Scale(d) >= 0
    THEN Less(TimesPow2(Times(Significand(d), den, 0), Scale(d)), Digits(num))
    ELSE Less(Times(Significand(d), den, 0), TimesPow2(Digits(num), -Scale(d)))

AbsAbove(d, num, den) ==
    IF Scale(d) >= 0
    THEN Less(Digits(num), TimesPow2(Times(Significand(d), den, 0), Scale(d)))
    ELSE Less(TimesPow2(Digits(num), -Scale(d)), Times(Significand(d), den, 0))

----------------------------------------------------------------------------
(* The claims.                                                             *)
(*                                                                         *)
(* The script has no failure kinds of its own: a failure is the exception  *)
(* the library call raises, uncaught.  The named failures of the claims    *)
(* are read as the closest library failure.  No library failure stands for *)
(* InvalidByteOrder.                                                       *)

MalformedHexString == BinasciiError
TruncatedInput     == EofError
UnsupportedType    == UnknownTypeError
InvalidByteOrder   == "InvalidByteOrder"

IsLiteral == wkb_hex = wkb_hex_literal

\* wkb.loads has returned a geometry.
Decoded == pc \in {"print", "exit"}

\* wkb.loads has been called and has returned or raised.
LoadsDone == Decoded \/ (pc = "raised" /\ exc # BinasciiError)

\* The hex text of the input is the undamaged text of its bytes.
CleanHex == input.hexdamage = "none"

\* C1: decoding the literal succeeds and yields a Point with SRID 4326:
\* byte 0 selects little-endian, the type tag has base kind 1 and the SRID
\* flag (0x20000001), and the 4 bytes after the tag are 4326.
C1_LiteralIsPointWithSrid ==
    IsLiteral =>
        /\ pc # "raised"
        /\ pc # "unhexlify" =>
              /\ data[1] = wkbNDR
              /\ Word(data, 2, wkbNDR) = << 32, 0, 0, 1 >>
              /\ Signed(Word(data, 6, wkbNDR)) = 4326
        /\ Decoded =>
              /\ geom.kind = "Point"
              /\ geom.srid = 4326

C1_Witness ==
    /\ IsLiteral
    /\ pc = "print"
    /\ geom.kind = "Point"
    /\ geom.srid = 4326

\* C2 as stated: the literal's point has x in (-109.413, -109.412] and y in
\* [2.0537, 2.0538).
C2_AsStated ==
    IsLiteral /\ Decoded =>
        /\ Negative(geom.body[1])
        /\ AbsBelow(geom.body[1], 109413, 1000)
        /\ ~AbsBelow(geom.body[1], 109412, 1000)
        /\ ~Negative(geom.body[2])
        /\ ~AbsBelow(geom.body[2], 20537, 10000)
        /\ AbsBelow(geom.body[2], 20538, 10000)

\* C2, amended: the literal's point has two ordinates, x (the little-endian
\* double in the 8 bytes after the SRID) in (-106.301, -106.299) and y (the
\* following 8 bytes) in (31.6947, 31.6949): approximately (-106.3, 31.6948).
C2_LiteralCoordinates ==
    IsLiteral /\ Decoded =>
        /\ Len(geom.body) = 2
        /\ geom.body[1] = Double(data, 10, wkbNDR)
        /\ geom.body[2] = Double(data, 18, wkbNDR)
        /\ Negative(geom.body[1])
        /\ AbsBelow(geom.body[1], 106301, 1000)
        /\ AbsAbove(geom.body[1], 106299, 1000)
        /\ ~Negative(geom.body[2])
        /\ AbsAbove(geom.body[2], 316947, 10000)
        /\ AbsBelow(geom.body[2], 316949, 10000)

C2_Witness ==
    /\ IsLiteral
    /\ Decoded
    /\ geom.body = << Pool[1], Pool[2] >>
    /\ AbsBelow(geom.body[1], 1063, 10)

\* C3: the WKT printed for the literal starts with the seven characters
\* "POINT (": no SRID prefix, no Z/M suffix.
C3_LiteralWktPrefix ==
    IsLiteral /\ pc = "exit" =>
        /\ Len(stdout) = 1
        /\ Len(stdout[1]) >= 7
        /\ SubSeq(stdout[1], 1, 7) = << "P","O","I","N","T"," ","(" >>

C3_Witness ==
    /\ IsLiteral
    /\ pc = "exit"
    /\ stdout = << << "P","O","I","N","T"," ","(", "<coordinates>", ")" >> >>

\* C4: a valid WKB byte sequence with its final byte removed fails with
\* TruncatedInput and yields no geometry.
C4_TruncatedFails ==
    input.damage[1] = "truncate" /\ CleanHex =>
        /\ ~Decoded
        /\ geom = NoGeometry
        /\ stdout = << >>
        /\ pc = "raised" => exc = TruncatedInput

C4_Witness ==
    /\ input = [LiteralInput EXCEPT !.damage = << "truncate", 0 >>]
    /\ Len(data) = 24
    /\ pc = "raised"
    /\ exc = TruncatedInput

\* C5 as stated: a first byte that is neither 0 nor 1 fails with
\* InvalidByteOrder and yields no geometry.
C5_AsStated ==
    input.damage[1] = "order" /\ LoadsDone =>
        /\ pc = "raised"
        /\ exc = InvalidByteOrder

\* C5, amended: a first byte that is neither 0 nor 1 is not refused and
\* never fails with InvalidByteOrder: the fields after it are read in the
\* machine's byte order, and when they are a valid WKB body in that order
\* the geometry they encode is produced.
C5_OtherOrderByteReadsInMachineOrder ==
    input.damage[1] = "order" =>
        /\ exc # InvalidByteOrder
        /\ LoadsDone =>
              /\ data[1] \notin {wkbXDR, wkbNDR}
              /\ loads(data, machineOrder)
                    = loads([data EXCEPT ![1] = machineOrder], machineOrder)
        /\ input.order = machineOrder =>
              /\ pc # "raised"
              /\ Decoded => geom = Original(input)

C5_Witness ==
    /\ input.damage = << "order", 2 >>
    /\ input.order = machineOrder
    /\ Decoded
    /\ data[1] = 2
    /\ geom = Original(input)

TopCode == data[TypePos(data[1])]

\* The kind the claim gives a type tag: by its low nibble.
KindByNibble(code) ==
    CASE code % 16 = 1 -> "Point"
      [] code % 16 = 2 -> "LineString"
      [] code % 16 = 3 -> "Polygon"
      [] code % 16 = 4 -> "MultiPoint"
      [] code % 16 = 5 -> "MultiLineString"
      [] code % 16 = 6 -> "MultiPolygon"
      [] OTHER -> "unsupported"

\* C7 as stated: with a valid byte-order byte, a type tag whose low nibble
\* is outside 1..6 fails with UnsupportedType, and the kind of a decoded
\* value is the one its tag's low nibble names.
C7_AsStated ==
    /\ input.damage[1] = "type" /\ input.damage[2] % 16 \notin 1..6
            /\ LoadsDone =>
          /\ pc = "raised"
          /\ exc = UnsupportedType
    /\ input.damage[1] \in {"none", "type"} /\ Decoded =>
          geom.kind = KindByNibble(TopCode)

\* C7, amended: with a valid byte-order byte and a type tag that is, apart
\* from its flag bits, a code of 0..255, the whole code, not its low
\* nibble, selects the kind: a code of 0 or of 13..255 fails with
\* UnsupportedType whatever its low nibble, code 7 is decoded as a
\* GeometryCollection of the members that follow, and the kind of every
\* decoded value is the one its code 1..7 names.
C7_CodeSelectsKind ==
    /\ input.damage[1] = "type" /\ input.damage[2] \in {0} \cup 13..255 =>
          /\ ~Decoded
          /\ pc = "raised" => exc = UnsupportedType
    /\ input.damage = << "type", 7 >> =>
          /\ pc # "raised"
          /\ Decoded =>
                /\ geom.kind = "GeometryCollection"
                /\ geom.body = Original(input).body
    /\ input.damage[1] \in {"none", "type"} /\ Decoded =>
          /\ TopCode \in 1..7
          /\ geom.kind = KindOf(TopCode)
          /\ TopCode \in 1..6 => geom.kind = KindByNibble(TopCode)

C7_WitnessUnknownCode ==
    /\ input.damage = << "type", 17 >>
    /\ pc = "raised"
    /\ TopCode = 17
    /\ exc = UnsupportedType

C7_Witness ==
    /\ input.damage = << "type", 7 >>
    /\ Decoded
    /\ geom.kind = "GeometryCollection"

\* C8 as stated: the empty byte sequence, and a valid encoding followed by
\* extra bytes, both fail with TruncatedInput.
C8_AsStated ==
    input.damage[1] \in {"empty", "trail"} /\ LoadsDone =>
        /\ pc = "raised"
        /\ exc = TruncatedInput

\* C8, amended: the empty byte sequence fails with TruncatedInput; a valid
\* encoding followed by extra bytes is accepted: the bytes after the
\* geometry are not read, and the geometry of the encoding is produced.
C8_EmptyFailsTrailingIgnored ==
    /\ input.damage[1] = "empty" =>
          /\ ~Decoded
          /\ pc = "raised" => exc = TruncatedInput
    /\ input.damage[1] = "trail" =>
          /\ pc # "raised"
          /\ pc # "unhexlify" =>
                Len(data) = Len(encode_as_wkb(Original(input), input.order))
                                + input.damage[2]
          /\ Decoded => geom = Original(input)

C8_Witness ==
    /\ input.damage = << "trail", MaxTrail >>
    /\ Decoded
    /\ geom = Original(input)

C8_WitnessEmptyInput ==
    /\ input.damage[1] = "empty"
    /\ pc = "raised"
    /\ data = << >>
    /\ exc = TruncatedInput

\* C9: a hex string of odd length, or with a character that is no hex
\* digit, fails at the hex decode with MalformedHexString, a failure unlike
\* the three of the WKB decode, and the WKB decode is not run on it; the
\* literal (50 hex digits) does not fail so.
C9_MalformedHex ==
    /\ MalformedHexString \notin {InvalidByteOrder, UnsupportedType, TruncatedInput}
    /\ (Len(wkb_hex) % 2 = 1 \/ \E i \in 1..Len(wkb_hex) : HexVal(wkb_hex[i]) = -1) =>
          /\ pc \in {"unhexlify", "raised"}
          /\ pc = "raised" => exc = MalformedHexString
          /\ data = << >>
          /\ geom = NoGeometry
    /\ IsLiteral =>
          /\ Len(wkb_hex) = 50
          /\ exc # MalformedHexString

C9_Witness ==
    /\ input.hexdamage = "odd"
    /\ Len(wkb_hex) % 2 = 1
    /\ \A i \in 1..Len(wkb_hex) : HexVal(wkb_hex[i]) # -1
    /\ pc = "raised"
    /\ exc = MalformedHexString

\* C10: the steps run in the order hex decode, WKB decode, print; text is
\* written to standard output at most once and only after both decodes
\* succeeded; a failure of either ends the run, uncaught, with nothing
\* printed.
C10_StepOrder ==
    /\ [](Len(stdout) <= 1)
    /\ [](stdout # << >> =>
            /\ pc = "exit"
            /\ exc = ""
            /\ unhexlify_error(wkb_hex) = ""
            /\ data = unhexlify(wkb_hex)
            /\ geom # NoGeometry
            /\ geom = loads(data, machineOrder).val)
    /\ [](pc = "raised" <=> exc # "")
    /\ [](pc = "raised" => stdout = << >>)
    /\ [][/\ pc = "raised" => UNCHANGED vars
          /\ pc' # pc =>
                \/ pc = "unhexlify" /\ pc' \in {"loads", "raised"}
                \/ pc = "loads" /\ pc' \in {"print", "raised"}
                \/ pc = "print" /\ pc' = "exit"
          /\ stdout' # stdout => pc = "print" /\ stdout = << >>
          /\ exc' # exc => pc \in {"unhexlify", "loads"} /\ pc' = "raised"]_vars

C10_Witness ==
    /\ pc = "raised"
    /\ exc = TruncatedInput
    /\ data # << >>
    /\ stdout = << >>

====
